---- MODULE Spec2Model ----
(***************************************************************************)
(* StackAdapt -> BigQuery sync pipeline.                                   *)
(*                                                                         *)
(* The model covers the GraphQL extraction client (StackAdaptClient), the  *)
(* flattener and staging load of sync_ads_performance, the merge/upsert    *)
(* engine merge_ads_performance and the orchestration in main().           *)
(*                                                                         *)
(* JSON values: an object is a TLA+ record (a key that is missing from the *)
(* JSON object is missing from the record's DOMAIN), a JSON null in an     *)
(* object or array position is NullObj, a JSON null in a leaf position is  *)
(* NULL, a JSON array is Arr(sequence) and every leaf is a string.         *)
(* BigQuery tables are bags of rows.                                       *)
(***************************************************************************)
EXTENDS Integers, Sequences, FiniteSets, Bags, TLC

VARIABLES
    staging,   \* the table raw_ads.stackadapt_ads_temp
    dest,      \* the table raw_ads.stackadapt_ads
    clock,     \* the load time pd.Timestamp.now() gives the next load
    nsyncs,    \* number of sync_ads_performance calls started so far
    nmerges,   \* number of direct merge_ads_performance calls started so far
    run,       \* per process: the position and the locals of its current call
    last       \* per process: what its most recent merge call saw and did

vars == <<staging, dest, clock, nsyncs, nmerges, run, last>>

(***************************************************************************)
(* Bounds of the model.                                                    *)
(***************************************************************************)
MaxRuns == 3          \* runs of main()
MaxSyncCalls == 1     \* direct calls of sync_ads_performance
MaxMergeCalls == 2    \* direct calls of merge_ads_performance
MaxAdvertisers == 2   \* advertisers the listing returns

(***************************************************************************)
(* JSON / SQL nulls.                                                       *)
(***************************************************************************)
NULL == "NULL"
NullObj == [null |-> TRUE]

\* a JSON array; None in its place is NullObj
Arr(seq) == [list |-> seq]

IsNone(d) == d = NullObj

\* Python truthiness of a dict-or-None: None and {} are falsy.
Truthy(d) == ~IsNone(d) /\ DOMAIN d # {}

\* d[k] succeeds: d is subscriptable and holds k (else TypeError / KeyError).
CanIndex(d, k) == ~IsNone(d) /\ k \in DOMAIN d

\* `k in d` raises TypeError when d is None.
InRaises(d) == IsNone(d)

\* d.get(k): None when the key is missing.
DictGet(d, k) == IF k \in DOMAIN d THEN d[k] ELSE NULL

(***************************************************************************)
(* The insight edges the API may answer with.                              *)
(***************************************************************************)
MetricNames ==
    {"clicks", "clickConversions", "engagements", "videoStarts",
     "videoQ1Playbacks", "videoQ2Playbacks", "videoQ3Playbacks",
     "videoCompletions", "impressions", "frequency", "cost"}

FullMetrics(v, c) == [m \in MetricNames |-> IF m = "cost" THEN c ELSE v]

MkEdge(adId, adName, date, campaign, metrics) ==
    [node |-> [attributes |-> [ad |-> [id |-> adId, name |-> adName,
                                       campaign |-> campaign],
                               date |-> date],
               metrics |-> metrics]]

Campaign1 ==
    [id |-> "c1", name |-> "camp1", goalType |-> "CPC",
     campaignGroup |-> [id |-> "g1", name |-> "group1"]]

\* a campaign without the optional goalType key
Campaign2 ==
    [id |-> "c2", name |-> "camp2",
     campaignGroup |-> [id |-> "g2", name |-> NULL]]

EdgeA == MkEdge("a1", "ad one", "d1", Campaign1, FullMetrics("5", "1250"))
\* same (ad, date) as EdgeA, other values, null leaves and missing metrics
EdgeB == MkEdge("a1", NULL, "d1", Campaign2,
                [clicks |-> NULL, impressions |-> "7", cost |-> "900"])
\* same ad as EdgeA, another day
EdgeC == MkEdge("a1", "ad one", "d2", Campaign1, FullMetrics("6", "40"))
\* another ad on the day of EdgeA
EdgeD == MkEdge("a2", "ad two", "d1", Campaign1, FullMetrics("1", "10"))
\* the ad object lacks the required key "name"
EdgeNoName ==
    [node |-> [attributes |-> [ad |-> [id |-> "a1", campaign |-> Campaign1],
                               date |-> "d1"],
               metrics |-> FullMetrics("5", "1250")]]
\* the campaign level of the nested path is null
EdgeNullCampaign == MkEdge("a2", "ad two", "d1", NullObj, FullMetrics("1", "10"))
\* the ad id is present and null
EdgeNullId == MkEdge(NULL, "ad none", "d1", Campaign1, FullMetrics("2", "20"))

(***************************************************************************)
(* Response envelopes.                                                     *)
(***************************************************************************)
InsightEnvelope(edges) ==
    [data |-> [campaignGroupInsight |-> [records |-> [edges |-> Arr(edges)]]]]

\* execute_query returned None (transport failure or non-2xx status)
RespNone == NullObj
\* a GraphQL error envelope: no "data" key
RespErrors == [errors |-> "bad request"]
\* "data" without the records path
RespNoRecords == [data |-> [campaignGroupInsight |-> [id |-> "x"]]]
RespEmpty == InsightEnvelope(<<>>)
\* null on the path: "data": null, and "edges": null
RespDataNull == [data |-> NullObj]
RespEdgesNull ==
    [data |-> [campaignGroupInsight |-> [records |-> [edges |-> NullObj]]]]
\* "campaignGroupInsight": null
RespInsightNull == [data |-> [campaignGroupInsight |-> NullObj]]
\* "records" without the "edges" key
RespNoEdges ==
    [data |-> [campaignGroupInsight |-> [records |-> [pageInfo |-> "p"]]]]

InsightResponses ==
    {RespNone, RespErrors, RespNoRecords, RespEmpty,
     RespDataNull, RespInsightNull, RespEdgesNull, RespNoEdges,
     InsightEnvelope(<<EdgeA>>),
     InsightEnvelope(<<EdgeB>>),
     InsightEnvelope(<<EdgeA, EdgeC>>),
     InsightEnvelope(<<EdgeA, EdgeB>>),
     InsightEnvelope(<<EdgeD, EdgeNoName>>),
     InsightEnvelope(<<EdgeNullCampaign>>),
     InsightEnvelope(<<EdgeNullId>>)}

\* what the request for one advertiser may come back with: a transport
\* failure, an error envelope, no records, and records
SingleResponses ==
    {RespNone, RespErrors, RespEmpty,
     InsightEnvelope(<<EdgeA>>),
     InsightEnvelope(<<EdgeA, EdgeC>>),
     InsightEnvelope(<<EdgeD, EdgeNoName>>)}

(***************************************************************************)
(* Advertiser listing envelopes.                                           *)
(***************************************************************************)
AdvertiserIds == <<"adv1", "adv2", "adv3">>

AdvertiserEdge(i) == [node |-> [id |-> AdvertiserIds[i], name |-> "n"]]

ListEnvelope(n) ==
    [data |-> [advertisers |-> [edges |-> Arr([i \in 1..n |-> AdvertiserEdge(i)])]]]

\* malformed listings: null "data", null "advertisers", no "edges" key, an
\* edge without "node", a node without "id"
ListDataNull == [data |-> NullObj]
ListAdvertisersNull == [data |-> [advertisers |-> NullObj]]
ListNoEdges == [data |-> [advertisers |-> [pageInfo |-> "p"]]]
ListEdgeNoNode ==
    [data |-> [advertisers |-> [edges |-> Arr(<<[cursor |-> "c"]>>)]]]
ListEdgeNoId ==
    [data |-> [advertisers |->
        [edges |-> Arr(<<AdvertiserEdge(1), [node |-> [name |-> "n"]]>>)]]]

MalformedListings ==
    {ListDataNull, ListAdvertisersNull, ListNoEdges, ListEdgeNoNode,
     ListEdgeNoId}

ListResponses ==
    {RespNone, RespErrors} \cup MalformedListings
    \cup {ListEnvelope(n) : n \in 0..MaxAdvertisers}

(***************************************************************************)
(* StackAdaptClient                                                        *)
(***************************************************************************)
\* get_all_advertiser_ids raises: `in` on a null "data" (line 93), or a
\* subscript of lines 95-96 on a null or on a missing key. Nothing in the
\* method catches it.
ListRaises(result) ==
    /\ Truthy(result)
    /\ "data" \in DOMAIN result
    /\ \/ InRaises(result.data)
       \/ /\ "advertisers" \in DOMAIN result.data
          /\ \/ ~CanIndex(result.data.advertisers, "edges")
             \/ IsNone(result.data.advertisers.edges)
             \/ \E i \in DOMAIN result.data.advertisers.edges.list :
                    LET edge == result.data.advertisers.edges.list[i]
                    IN  \/ ~CanIndex(edge, "node")
                        \/ ~CanIndex(edge.node, "id")

\* get_all_advertiser_ids: the ids of the edges, [] for a failed request or
\* an envelope without data.advertisers.
GetAllAdvertiserIds(result) ==
    IF Truthy(result) /\ "data" \in DOMAIN result
       /\ "advertisers" \in DOMAIN result.data
    THEN LET edges == result.data.advertisers.edges.list
         IN  [i \in 1..Len(edges) |-> edges[i].node.id]
    ELSE <<>>

\* The condition of _check_data_retrieved raises (TypeError) inside its try.
CheckRaises(result) ==
    /\ Truthy(result)
    /\ "data" \in DOMAIN result
    /\ \/ InRaises(result.data)
       \/ /\ "campaignGroupInsight" \in DOMAIN result.data
          /\ \/ InRaises(result.data.campaignGroupInsight)
             \/ /\ "records" \in DOMAIN result.data.campaignGroupInsight
                /\ \/ InRaises(result.data.campaignGroupInsight.records)
                   \/ /\ "edges" \in DOMAIN result.data.campaignGroupInsight.records
                      /\ IsNone(result.data.campaignGroupInsight.records.edges)

\* a check that is content with a "data" key
CheckDataKeyOnly(result) == Truthy(result) /\ "data" \in DOMAIN result

\* _check_data_retrieved: the path data/campaignGroupInsight/records/edges
\* is there and holds at least one edge; any exception gives False.
CheckDataRetrieved(result) ==
    /\ ~CheckRaises(result)
    /\ Truthy(result)
    /\ "data" \in DOMAIN result
    /\ "campaignGroupInsight" \in DOMAIN result.data
    /\ "records" \in DOMAIN result.data.campaignGroupInsight
    /\ "edges" \in DOMAIN result.data.campaignGroupInsight.records
    /\ Len(result.data.campaignGroupInsight.records.edges.list) > 0

\* a connection test that passes whatever came back
TestConnectionAlwaysPasses(result) == TRUE

\* test_connection: the schema query got an answer.
TestConnection(result) == ~IsNone(result)

(***************************************************************************)
(* The flattener of sync_ads_performance.                                  *)
(***************************************************************************)
\* Building the record of one edge raises KeyError or TypeError.
EdgeRaises(edge) ==
    ~ /\ CanIndex(edge, "node")
      /\ CanIndex(edge.node, "attributes")
      /\ CanIndex(edge.node.attributes, "ad")
      /\ CanIndex(edge.node.attributes.ad, "id")
      /\ CanIndex(edge.node.attributes.ad, "name")
      /\ CanIndex(edge.node.attributes, "date")
      /\ CanIndex(edge.node.attributes.ad, "campaign")
      /\ CanIndex(edge.node.attributes.ad.campaign, "id")
      /\ CanIndex(edge.node.attributes.ad.campaign, "name")
      /\ CanIndex(edge.node.attributes.ad.campaign, "campaignGroup")
      /\ CanIndex(edge.node.attributes.ad.campaign.campaignGroup, "id")
      /\ CanIndex(edge.node.attributes.ad.campaign.campaignGroup, "name")
      /\ CanIndex(edge.node, "metrics")
      /\ ~IsNone(edge.node.metrics)

\* The record built from one edge (lines 117-142).
FlattenEdge(edge) ==
    LET ad == edge.node.attributes.ad
        metrics == edge.node.metrics
    IN  [ad_id |-> ad.id,
         ad_name |-> ad.name,
         date |-> edge.node.attributes.date,
         campaign_id |-> ad.campaign.id,
         campaign_name |-> ad.campaign.name,
         campaign_group_id |-> ad.campaign.campaignGroup.id,
         campaign_group_name |-> ad.campaign.campaignGroup.name,
         goalType |-> DictGet(ad.campaign, "goalType"),
         clicks |-> DictGet(metrics, "clicks"),
         clickConversions |-> DictGet(metrics, "clickConversions"),
         engagements |-> DictGet(metrics, "engagements"),
         videoStarts |-> DictGet(metrics, "videoStarts"),
         videoQ1Playbacks |-> DictGet(metrics, "videoQ1Playbacks"),
         videoQ2Playbacks |-> DictGet(metrics, "videoQ2Playbacks"),
         videoQ3Playbacks |-> DictGet(metrics, "videoQ3Playbacks"),
         videoCompletions |-> DictGet(metrics, "videoCompletions"),
         impressions |-> DictGet(metrics, "impressions"),
         frequency |-> DictGet(metrics, "frequency"),
         cost |-> DictGet(metrics, "cost")]

\* The guard of lines 106-108 raises.
GuardRaises(result) ==
    /\ Truthy(result)
    /\ "data" \in DOMAIN result
    /\ \/ InRaises(result.data)
       \/ /\ "campaignGroupInsight" \in DOMAIN result.data
          /\ InRaises(result.data.campaignGroupInsight)

\* The guard of lines 106-108 lets the result in.
GuardPasses(result) ==
    /\ Truthy(result)
    /\ "data" \in DOMAIN result
    /\ "campaignGroupInsight" \in DOMAIN result.data
    /\ "records" \in DOMAIN result.data.campaignGroupInsight

\* One result raises while it is flattened.
ResultRaises(result) ==
    \/ GuardRaises(result)
    \/ /\ GuardPasses(result)
       /\ LET recs == result.data.campaignGroupInsight.records
          IN  \/ ~CanIndex(recs, "edges")
              \/ IsNone(recs.edges)
              \/ \E i \in 1..Len(recs.edges.list) :
                    EdgeRaises(recs.edges.list[i])

\* a flattener that reads the first edge of a result only
ResultRecordsFirstEdge(result) ==
    IF GuardPasses(result)
    THEN LET edges == result.data.campaignGroupInsight.records.edges.list
         IN  IF edges = <<>> THEN <<>> ELSE <<FlattenEdge(edges[1])>>
    ELSE <<>>

\* The records of one result, in edge order.
ResultRecords(result) ==
    IF GuardPasses(result)
    THEN LET edges == result.data.campaignGroupInsight.records.edges.list
         IN  [i \in 1..Len(edges) |-> FlattenEdge(edges[i])]
    ELSE <<>>

\* a flattener that drops a record equal to one it already has
FlattenAllDistinct(results) ==
    LET Each[i \in 0..Len(results)] ==
            IF i = 0 THEN <<>> ELSE Each[i - 1] \o ResultRecords(results[i])
        all == Each[Len(results)]
        Kept[k \in 0..Len(all)] ==
            IF k = 0 THEN <<>>
            ELSE IF \E j \in 1..(k - 1) : all[j] = all[k] THEN Kept[k - 1]
            ELSE Append(Kept[k - 1], all[k])
    IN  Kept[Len(all)]

RECURSIVE FlattenAll(_)
\* lines 103-144: the records of all results, in result order then edge order
FlattenAll(results) ==
    IF results = <<>> THEN <<>>
    ELSE ResultRecords(Head(results)) \o FlattenAll(Tail(results))

FlattenRaises(results) == \E i \in 1..Len(results) : ResultRaises(results[i])

\* a flattener that skips the edges it cannot read
RecordsOfReadableEdges(result) ==
    IF GuardPasses(result)
    THEN LET edges == result.data.campaignGroupInsight.records.edges.list
             F[i \in 0..Len(edges)] ==
                 IF i = 0 THEN <<>>
                 ELSE IF EdgeRaises(edges[i]) THEN F[i - 1]
                 ELSE Append(F[i - 1], FlattenEdge(edges[i]))
         IN  F[Len(edges)]
    ELSE <<>>

FlattenOutcomeSkippingBadEdges(results) ==
    LET F[i \in 0..Len(results)] ==
            IF i = 0 THEN <<>>
            ELSE F[i - 1] \o RecordsOfReadableEdges(results[i])
    IN  [raised |-> FALSE, records |-> F[Len(results)]]

\* lines 103-146 inside the try of line 84: the record list, or the exception
FlattenOutcome(results) ==
    IF FlattenRaises(results) THEN [raised |-> TRUE, records |-> <<>>]
    ELSE [raised |-> FALSE, records |-> FlattenAll(results)]

(***************************************************************************)
(* Tables.                                                                 *)
(***************************************************************************)
AbsentTable == [exists |-> FALSE, rows |-> EmptyBag]

TableOf(bag) == [exists |-> TRUE, rows |-> bag]

RECURSIVE SeqToBag(_)
SeqToBag(s) ==
    IF s = <<>> THEN EmptyBag ELSE SetToBag({Head(s)}) (+) SeqToBag(Tail(s))

RECURSIVE BagSum(_, _)
\* the number of copies the bag holds of the rows of S
BagSum(bag, S) ==
    IF S = {} THEN 0
    ELSE LET x == CHOOSE y \in S : TRUE
         IN  bag[x] + BagSum(bag, S \ {x})

(***************************************************************************)
(* The staging load of sync_ads_performance (lines 152-177).               *)
(***************************************************************************)
\* pd.to_datetime on the date column: a calendar day becomes the timestamp
\* of its midnight, None becomes NaT (a NULL in the table).
ToDatetime(d) ==
    CASE d = "d1" -> "d1T00:00:00"
      [] d = "d2" -> "d2T00:00:00"
      [] OTHER -> NULL

SourceTag == "stackadapt_graphql_api"

\* One row of the data frame that is loaded: the record with the converted
\* date and the two metadata columns.
FrameRow(rec, now) ==
    [c \in DOMAIN rec \cup {"_loaded_at", "_source"} |->
        CASE c = "date" -> ToDatetime(rec.date)
          [] c = "_loaded_at" -> now
          [] c = "_source" -> SourceTag
          [] OTHER -> rec[c]]

Frame(records, now) == [i \in 1..Len(records) |-> FrameRow(records[i], now)]

\* to_gbq(..., if_exists='replace')
\* if_exists='append': the frame is added to what the table held
ToGbqAppend(old, frame) == TableOf(old.rows (+) SeqToBag(frame))

ToGbqReplace(old, frame) == TableOf(SeqToBag(frame))

(***************************************************************************)
(* merge_ads_performance: the two statements.                              *)
(***************************************************************************)
\* a join on the ad alone
KeyMatchOnAdOnly(t, s) == t.ad_id # NULL /\ s.ad_id # NULL /\ t.ad_id = s.ad_id

\* ON target.ad_id = source.ad_id AND target.date = source.date
\* (SQL equality: a NULL on either side never matches)
KeyMatch(t, s) ==
    /\ t.ad_id # NULL /\ s.ad_id # NULL /\ t.ad_id = s.ad_id
    /\ t.date # NULL /\ s.date # NULL /\ t.date = s.date

\* a partial patch: a NULL of the source leaves the target's value
UpdateRowKeepingNonNull(t, s) ==
    [c \in DOMAIN t |->
        IF c \in {"ad_id", "date"} THEN t[c]
        ELSE IF c = "_loaded_at" THEN s[c]
        ELSE IF s[c] = NULL THEN t[c] ELSE s[c]]

\* WHEN MATCHED THEN UPDATE SET ... (lines 345-364)
UpdateRow(t, s) ==
    [t EXCEPT !.ad_name = s.ad_name,
              !.campaign_id = s.campaign_id,
              !.campaign_name = s.campaign_name,
              !.campaign_group_id = s.campaign_group_id,
              !.campaign_group_name = s.campaign_group_name,
              !.goalType = s.goalType,
              !.clicks = s.clicks,
              !.clickConversions = s.clickConversions,
              !.engagements = s.engagements,
              !.videoStarts = s.videoStarts,
              !.videoQ1Playbacks = s.videoQ1Playbacks,
              !.videoQ2Playbacks = s.videoQ2Playbacks,
              !.videoQ3Playbacks = s.videoQ3Playbacks,
              !.videoCompletions = s.videoCompletions,
              !.impressions = s.impressions,
              !.frequency = s.frequency,
              !.cost = s.cost,
              !["_loaded_at"] = s["_loaded_at"],
              !["_source"] = s["_source"]]

\* WHEN NOT MATCHED THEN INSERT (...) VALUES (...) (lines 365-381)
InsertRow(s) ==
    [ad_id |-> s.ad_id, ad_name |-> s.ad_name, date |-> s.date,
     campaign_id |-> s.campaign_id, campaign_name |-> s.campaign_name,
     campaign_group_id |-> s.campaign_group_id,
     campaign_group_name |-> s.campaign_group_name, goalType |-> s.goalType,
     clicks |-> s.clicks, clickConversions |-> s.clickConversions,
     engagements |-> s.engagements, videoStarts |-> s.videoStarts,
     videoQ1Playbacks |-> s.videoQ1Playbacks,
     videoQ2Playbacks |-> s.videoQ2Playbacks,
     videoQ3Playbacks |-> s.videoQ3Playbacks,
     videoCompletions |-> s.videoCompletions, impressions |-> s.impressions,
     frequency |-> s.frequency, cost |-> s.cost]
    @@ [c \in {"_loaded_at", "_source"} |-> s[c]]

Matches(t, src) == {s \in BagToSet(src) : KeyMatch(t, s)}

\* BigQuery refuses a MERGE in which a target row matches more than one
\* source row.
MergeAmbiguous(tgt, src) ==
    \E t \in BagToSet(tgt) : BagSum(src, Matches(t, src)) > 1

\* what the MERGE makes of target row t
MergedRow(t, src) ==
    IF Matches(t, src) = {} THEN t
    ELSE UpdateRow(t, CHOOSE s \in Matches(t, src) : TRUE)

\* the rows of the target after the MERGE statement
MergeRows(tgt, src) ==
    LET T == BagToSet(tgt)
        updated == [u \in {MergedRow(t, src) : t \in T} |->
                        BagSum(tgt, {t \in T : MergedRow(t, src) = u})]
        fresh == {s \in BagToSet(src) : \A t \in T : ~KeyMatch(t, s)}
        inserted == [r \in {InsertRow(s) : s \in fresh} |->
                        BagSum(src, {s \in fresh : InsertRow(s) = r})]
    IN  updated (+) inserted

\* CREATE OR REPLACE TABLE: an existing target is no obstacle
CreateOrReplaceFails(tgt, src) == ~src.exists

\* CREATE TABLE target AS SELECT * FROM temp (lines 322-331): fails when the
\* target is there already or the source is not.
CreateFails(tgt, src) == tgt.exists \/ ~src.exists

\* CREATE TABLE target LIKE temp: the columns without the rows
CreateLikeOnly(tgt, src) == TableOf(EmptyBag)

CreateAsSelect(tgt, src) == TableOf(src.rows)

\* MERGE target USING temp (lines 340-388)
MergeFails(tgt, src) ==
    ~tgt.exists \/ ~src.exists \/ MergeAmbiguous(tgt.rows, src.rows)

MergeInto(tgt, src) == TableOf(MergeRows(tgt.rows, src.rows))

(***************************************************************************)
(* Processes: each runs one call chain at a time.                          *)
(***************************************************************************)
Procs == {"p1", "p2"}

\* what a run finds configured: warehouse credentials (GOOGLE_CREDENTIALS
\* or credentials.json), a project id (--project or the credentials'), and
\* the StackAdapt API key
Configs == [credentials : BOOLEAN, project_id : BOOLEAN, api_key : BOOLEAN]

GoodConfig == [credentials |-> TRUE, project_id |-> TRUE, api_key |-> TRUE]

\* a constructor that validates nothing
ConfigErrorDeferred(cfg) == "none"

\* StackAdaptToBigQueryPipeline.__init__, lines 48-60: BigQueryClient()
\* raises without credentials, then the project id is required, then
\* StackAdaptClient() raises without API key
ConfigError(cfg) ==
    IF ~cfg.credentials THEN "credentials"
    ELSE IF ~cfg.project_id THEN "project_id"
    ELSE IF ~cfg.api_key THEN "api_key"
    ELSE "none"

\* what the run of main() before this one was answered, returned and left
\* in the destination, if it went through a merge without warehouse error
NoPrev == [merged |-> FALSE, upstream |-> <<>>, count |-> 0, destRows |-> 0]

IdleRun ==
    [pc |-> "idle", driver |-> "none", config |-> GoodConfig, prev |-> NoPrev,
     use_bulk |-> TRUE, ids |-> <<>>,
     idx |-> 0, all_results |-> <<>>, records |-> <<>>, count |-> 0,
     loaded_at |-> 0,
     target_exists |-> FALSE, probe_failed |-> FALSE,
     merge_success |-> FALSE, raised_at |-> "none", trace |-> <<>>,
     stagingAtStart |-> AbsentTable, destAtStart |-> AbsentTable]

\* what the caller's last sync_ads_performance call asked, got and returned
NoSync == [use_bulk |-> TRUE, trace |-> <<>>, records |-> <<>>, count |-> 0]

SyncSummary(r) ==
    [use_bulk |-> r.use_bulk, trace |-> r.trace, records |-> r.records,
     count |-> r.count]

NoMerge ==
    [op |-> "none", path |-> "none", ok |-> FALSE, sync |-> NoSync,
     probeError |-> FALSE, jobError |-> FALSE,
     prevOp |-> "none", prevClean |-> FALSE,
     destBefore |-> AbsentTable, stagingBefore |-> AbsentTable,
     destAfter |-> AbsentTable]

\* positions at which a process has no call in progress
AtRest == {"idle", "done_zero", "done_merged", "done_staged_only", "failed",
           "sync_returned", "merge_returned"}

\* entries of the step log: the step, and for a request what was asked
\* and what execute_query returned
Step(op) == [op |-> op, ids |-> <<>>, resp |-> NullObj]

SchemaRequest(resp) == [op |-> "test_connection", ids |-> <<>>, resp |-> resp]

ListRequest(resp) == [op |-> "list_advertisers", ids |-> <<>>, resp |-> resp]

InsightRequest(ids, resp) == [op |-> "insights", ids |-> ids, resp |-> resp]

\* a bulk request that asks for the first advertiser only
BulkIdsFirstOnly(ids) == <<ids[1]>>

\* get_ad_insights_by_day_bulk, lines 271-275: the "ids" variable of the
\* one request is the whole list
BulkIds(ids) == ids

\* fetch_all_ad_insights, lines 344-355 and 365-374: a response is kept
\* when it is truthy and passes _check_data_retrieved
Accepted(resp) == Truthy(resp) /\ CheckDataRetrieved(resp)

\* a loop that keeps whatever came back
CollectEverything(all_results, resp) == Append(all_results, resp)

\* lines 365-374: the loop appends an accepted response and skips another
Collect(all_results, resp) ==
    IF Accepted(resp) THEN Append(all_results, resp) ELSE all_results

\* a loop that sleeps after every request
DelayAfterEvery(i, n) == TRUE

\* lines 376-378: no sleep after the last request
DelayAfter(i, n) == i < n

\* a main() that merges whatever the sync returned
MainAfterSyncAlwaysMerging(count) == "merge_probe"

\* main(), lines 426-429: merge only when the sync loaded rows
MainAfterSync(count) == IF count > 0 THEN "merge_probe" ELSE "done_zero"

\* where a process goes when sync_ads_performance returns `count`
AfterSync(r, count) ==
    [r EXCEPT !.count = count,
              !.pc = IF r.driver = "main" THEN MainAfterSync(count)
                     ELSE "sync_returned"]

\* sync_ads_performance re-raises (lines 213-215); main re-raises (479-481)
SyncRaise(r, where) == [r EXCEPT !.pc = "failed", !.raised_at = where]

\* a sync without the early return on an empty result list
AfterFetchAlwaysFlattening(r, results) ==
    [r EXCEPT !.all_results = results, !.pc = "flatten"]

\* what the loop or the bulk branch of fetch_all_ad_insights hands back to
\* sync_ads_performance, and the `if not all_results` of lines 96-98
AfterFetch(r, results) ==
    IF results = <<>> THEN AfterSync([r EXCEPT !.all_results = results], 0)
    ELSE [r EXCEPT !.all_results = results, !.pc = "flatten"]

\* without the except clause the error leaves merge_ads_performance
MergeReturnRaising(failed) == [raised |-> failed, value |-> TRUE]

\* try / except of merge_ads_performance (lines 310, 393-395): an error
\* becomes the return value False
MergeReturn(failed) == [raised |-> FALSE, value |-> ~failed]

SchemaResponses == {RespNone, [data |-> [schema |-> "types"]]}

(***************************************************************************)
(* Initial state: no table exists, nothing runs.                           *)
(***************************************************************************)
Init ==
    /\ staging = AbsentTable
    /\ dest = AbsentTable
    /\ clock = 1
    /\ nsyncs = 0
    /\ nmerges = 0
    /\ run = [p \in Procs |-> IdleRun]
    /\ last = [p \in Procs |-> NoMerge]

(***************************************************************************)
(* main(): one orchestration run, sync_ads_performance then the merge.     *)
(***************************************************************************)
\* the responses of the step log, in order
Upstream(trace) ==
    LET IsRequest(e) == e.op \in {"list_advertisers", "insights"}
        reqs == SelectSeq(trace, IsRequest)
    IN  [k \in 1..Len(reqs) |-> <<reqs[k].op, reqs[k].resp>>]

PrevRun(p) ==
    IF /\ run[p].driver = "main"
       /\ run[p].pc \in {"done_merged", "done_staged_only"}
       /\ ~last[p].probeError /\ ~last[p].jobError
    THEN [merged |-> TRUE, upstream |-> Upstream(run[p].trace),
          count |-> run[p].count, destRows |-> BagCardinality(dest.rows)]
    ELSE NoPrev

\* --bulk is a store_true flag whose default is True (line 402)
MainUseBulk == TRUE

\* the locals of a process that enters sync_ads_performance
EnterSync(driver, bulk) ==
    [IdleRun EXCEPT !.pc = "test_connection",
                    !.driver = driver,
                    !.use_bulk = bulk,
                    !.stagingAtStart = staging,
                    !.destAtStart = dest]

StartRun(p) ==
    /\ run[p].pc \in AtRest
    /\ nsyncs < MaxRuns
    /\ \E cfg \in Configs :
          run' = [run EXCEPT ![p] =
                    IF ConfigError(cfg) # "none"
                    THEN [IdleRun EXCEPT !.pc = "failed",
                                         !.driver = "main",
                                         !.config = cfg,
                                         !.raised_at = "init",
                                         !.stagingAtStart = staging,
                                         !.destAtStart = dest]
                    ELSE [EnterSync("main", MainUseBulk) EXCEPT
                             !.config = cfg, !.prev = PrevRun(p)]]
    /\ nsyncs' = nsyncs + 1
    /\ last' = [last EXCEPT ![p] = [NoMerge EXCEPT !.op = "sync"]]
    /\ UNCHANGED <<staging, dest, clock, nmerges>>

(***************************************************************************)
(* sync_ads_performance                                                    *)
(***************************************************************************)
\* lines 85-90
TestConnectionStep(p) ==
    /\ run[p].pc = "test_connection"
    /\ \E resp \in SchemaResponses :
          LET r == [run[p] EXCEPT !.trace = Append(@, SchemaRequest(resp))]
          IN  run' = [run EXCEPT ![p] =
                        IF TestConnection(resp)
                        THEN [r EXCEPT !.pc = "list_advertisers"]
                        ELSE SyncRaise(r, "test_connection")]
    /\ UNCHANGED <<staging, dest, clock, nsyncs, nmerges, last>>

\* fetch_all_ad_insights, lines 329-337
ListAdvertisers(p) ==
    /\ run[p].pc = "list_advertisers"
    /\ \E resp \in ListResponses :
          LET raises == ListRaises(resp)
              ids == IF raises THEN <<>> ELSE GetAllAdvertiserIds(resp)
              r == [run[p] EXCEPT !.trace = Append(@, ListRequest(resp)),
                                  !.ids = ids]
          IN  run' = [run EXCEPT ![p] =
                        IF raises THEN SyncRaise(r, "list_advertisers")
                        ELSE IF ids = <<>> THEN AfterFetch(r, <<>>)
                        ELSE [r EXCEPT !.idx = 1,
                                       !.pc = IF r.use_bulk THEN "fetch_bulk"
                                              ELSE "fetch_single"]]
    /\ UNCHANGED <<staging, dest, clock, nsyncs, nmerges, last>>

\* fetch_all_ad_insights, lines 339-355
FetchBulk(p) ==
    /\ run[p].pc = "fetch_bulk"
    /\ \E resp \in InsightResponses :
          LET r == [run[p] EXCEPT
                        !.trace = Append(@, InsightRequest(BulkIds(run[p].ids),
                                                           resp))]
              results == IF Accepted(resp) THEN <<resp>> ELSE <<>>
          IN  run' = [run EXCEPT ![p] = AfterFetch(r, results)]
    /\ UNCHANGED <<staging, dest, clock, nsyncs, nmerges, last>>

\* fetch_all_ad_insights, lines 361-380: one turn of the loop
FetchSingle(p) ==
    /\ run[p].pc = "fetch_single"
    /\ \E resp \in SingleResponses :
          LET i == run[p].idx
              n == Len(run[p].ids)
              results == Collect(run[p].all_results, resp)
              asked == Append(run[p].trace,
                              InsightRequest(<<run[p].ids[i]>>, resp))
              slept == IF DelayAfter(i, n) THEN Append(asked, Step("delay"))
                       ELSE asked
          IN  run' = [run EXCEPT ![p] =
                        IF i < n
                        THEN [run[p] EXCEPT !.trace = slept,
                                            !.all_results = results,
                                            !.idx = i + 1]
                        ELSE AfterFetch([run[p] EXCEPT !.trace = slept],
                                        results)]
    /\ UNCHANGED <<staging, dest, clock, nsyncs, nmerges, last>>

\* lines 103-150
Flatten(p) ==
    /\ run[p].pc = "flatten"
    /\ LET r == [run[p] EXCEPT !.trace = Append(@, Step("flatten"))]
           out == FlattenOutcome(r.all_results)
       IN  run' = [run EXCEPT ![p] =
                     IF out.raised THEN SyncRaise(r, "flatten")
                     ELSE IF out.records = <<>> THEN AfterSync(r, 0)
                     ELSE [r EXCEPT !.records = out.records, !.pc = "stage"]]
    /\ UNCHANGED <<staging, dest, clock, nsyncs, nmerges, last>>

\* lines 152-211: the load succeeds, or to_gbq raises
Stage(p) ==
    /\ run[p].pc = "stage"
    /\ LET r == [run[p] EXCEPT !.trace = Append(@, Step("stage"))]
           frame == Frame(r.records, clock)
       IN  \/ /\ staging' = ToGbqReplace(staging, frame)
              /\ clock' = clock + 1
              /\ run' = [run EXCEPT ![p] =
                           AfterSync([r EXCEPT !.loaded_at = clock],
                                     Len(frame))]
           \/ /\ staging' \in {staging, AbsentTable}
              /\ clock' = clock
              /\ run' = [run EXCEPT ![p] = SyncRaise(r, "stage")]
    /\ UNCHANGED <<dest, nsyncs, nmerges, last>>

(***************************************************************************)
(* merge_ads_performance                                                   *)
(***************************************************************************)
\* a lookup whose failure counts as "the table is there"
TargetExistsUnlessKnownAbsent(table, probe_error) ==
    table.exists \/ probe_error

\* get_table_info, lines 227-260, and line 316: the lookup gives a dict
\* only when its query ran and found the table; an empty result and an
\* exception both give None
TargetExists(table, probe_error) ==
    table.exists /\ ~probe_error

\* lines 311-316: get_table_info gives None for an absent table and for a
\* failed lookup alike
MergeProbe(p) ==
    /\ run[p].pc = "merge_probe"
    /\ \E probe_error \in BOOLEAN :
          run' = [run EXCEPT ![p] =
                    [run[p] EXCEPT
                        !.trace = Append(@, Step("merge")),
                        !.target_exists = TargetExists(dest, probe_error),
                        !.probe_failed = probe_error,
                        !.pc = "merge_statement"]]
    /\ UNCHANGED <<staging, dest, clock, nsyncs, nmerges, last>>

\* a merge that reads the rows its own run loaded
MergeSourceOwnRows(p) ==
    TableOf(SeqToBag(Frame(run[p].records, run[p].loaded_at)))

\* lines 313, 324 and 342: the source of both statements is the table
\* {project}.{dataset}.stackadapt_ads_temp, as it is when the statement runs
MergeSource(p) == staging

\* lines 318-395: the CREATE or the MERGE, each one atomic statement that
\* BigQuery either applies or answers with an error
MergeStatement(p) ==
    /\ run[p].pc = "merge_statement"
    /\ \E job_error \in BOOLEAN :
          LET create == ~run[p].target_exists
              source == MergeSource(p)
              failed == \/ job_error
                        \/ IF create THEN CreateFails(dest, source)
                           ELSE MergeFails(dest, source)
              ret == MergeReturn(failed)
          IN  /\ dest' = IF failed THEN dest
                         ELSE IF create THEN CreateAsSelect(dest, source)
                         ELSE MergeInto(dest, source)
              /\ run' = [run EXCEPT ![p] =
                           IF ret.raised THEN SyncRaise(run[p], "merge")
                           ELSE [run[p] EXCEPT
                                    !.merge_success = ret.value,
                                    !.pc = IF run[p].driver = "main"
                                           THEN "report"
                                           ELSE "merge_returned"]]
              /\ last' = [last EXCEPT ![p] =
                            [op |-> "merge",
                             sync |-> last[p].sync,
                             path |-> IF create THEN "create" ELSE "upsert",
                             ok |-> ~failed,
                             probeError |-> run[p].probe_failed,
                             jobError |-> job_error,
                             prevOp |-> last[p].op,
                             prevClean |-> ~last[p].probeError
                                           /\ ~last[p].jobError,
                             destBefore |-> dest,
                             stagingBefore |-> source,
                             destAfter |-> dest']]
    /\ UNCHANGED <<staging, clock, nsyncs, nmerges>>

(***************************************************************************)
(* main(), lines 434-477: the log of the outcome and the read-only         *)
(* queries on the temp table, any of which may raise.                      *)
(***************************************************************************)
Report(p) ==
    /\ run[p].pc = "report"
    /\ \E query_error \in BOOLEAN :
          run' = [run EXCEPT ![p] =
                    IF query_error THEN SyncRaise(run[p], "report")
                    ELSE [run[p] EXCEPT
                             !.pc = IF run[p].merge_success THEN "done_merged"
                                    ELSE "done_staged_only"]]
    /\ UNCHANGED <<staging, dest, clock, nsyncs, nmerges, last>>

SyncSteps(p) ==
    \/ TestConnectionStep(p)
    \/ ListAdvertisers(p)
    \/ FetchBulk(p)
    \/ Flatten(p)
    \/ Stage(p)

MergeSteps(p) ==
    \/ MergeProbe(p)
    \/ MergeStatement(p)

ApiSyncSteps(p) ==
    \/ SyncSteps(p)
    \/ FetchSingle(p)

(***************************************************************************)
(* Specification Spec: runs of main(), one after the other.                *)
(***************************************************************************)
Next ==
    \/ StartRun("p1")
    \/ SyncSteps("p1")
    \/ MergeSteps("p1")
    \/ Report("p1")

Spec == Init /\ [][Next]_vars

(***************************************************************************)
(* Specification ApiSpec: a caller of the pipeline object that calls       *)
(* sync_ads_performance (in either mode) and merge_ads_performance in any  *)
(* order, one call after the other.                                        *)
(***************************************************************************)
ApiCallSync(p) ==
    /\ run[p].pc \in AtRest
    /\ nsyncs < MaxSyncCalls
    /\ \E bulk \in BOOLEAN :
          run' = [run EXCEPT ![p] = EnterSync("api", bulk)]
    /\ nsyncs' = nsyncs + 1
    /\ last' = [last EXCEPT ![p] = [NoMerge EXCEPT !.op = "sync"]]
    /\ UNCHANGED <<staging, dest, clock, nmerges>>

ApiCallMerge(p) ==
    /\ run[p].pc \in AtRest
    /\ nmerges < MaxMergeCalls
    /\ run' = [run EXCEPT ![p] =
                 [IdleRun EXCEPT !.pc = "merge_probe",
                                 !.driver = "api",
                                 !.stagingAtStart = staging,
                                 !.destAtStart = dest]]
    /\ last' = [last EXCEPT ![p].sync =
                    IF run[p].pc = "sync_returned" THEN SyncSummary(run[p])
                    ELSE @]
    /\ nmerges' = nmerges + 1
    /\ UNCHANGED <<staging, dest, clock, nsyncs>>

ApiNext ==
    \/ ApiCallSync("p1")
    \/ ApiCallMerge("p1")
    \/ ApiSyncSteps("p1")
    \/ MergeSteps("p1")

ApiSpec == Init /\ [][ApiNext]_vars

(***************************************************************************)
(* Specification ConcSpec: two invocations of main() at once, one in each  *)
(* process, against the same project and dataset.  Each request and each  *)
(* statement BigQuery runs is one step; the steps of the two processes     *)
(* interleave freely, since the code takes no lock and both processes use  *)
(* the same two table names.                                               *)
(***************************************************************************)
\* one operating-system process: main() runs once in it (line 486)
InvokeMain(p) ==
    /\ run[p].pc = "idle"
    /\ StartRun(p)

ConcNext ==
    \E p \in Procs :
        \/ InvokeMain(p)
        \/ SyncSteps(p)
        \/ MergeSteps(p)
        \/ Report(p)

ConcSpec == Init /\ [][ConcNext]_vars

(***************************************************************************)
(* Vocabulary of the properties.                                           *)
(***************************************************************************)
\* two rows carry the same (ad_id, date)
SameKey(t, s) ==
    /\ t.ad_id # NULL /\ t.date # NULL
    /\ t.ad_id = s.ad_id /\ t.date = s.date

ValueColumns ==
    {"ad_name", "campaign_id", "campaign_name", "campaign_group_id",
     "campaign_group_name", "goalType"} \cup MetricNames
    \cup {"_loaded_at", "_source"}

RowsOf(table) == BagToSet(table.rows)

\* the number of rows of the table that carry the key of row r
RowsWithKey(table, r) ==
    LET same == {u \in RowsOf(table) : SameKey(u, r)}
    IN  IF same = {} THEN 0
        ELSE LET n[S \in SUBSET same] ==
                     IF S = {} THEN 0
                     ELSE LET u == CHOOSE v \in S : TRUE
                          IN  CopiesIn(u, table.rows) + n[S \ {u}]
             IN  n[same]

MergeDone(p) == last[p].op = "merge"

(***************************************************************************)
(* C1: after a successful merge against an existing destination, every     *)
(* destination row whose (ad_id, date) is that of a staging row is still   *)
(* there and carries the staging row's value in every descriptive, metric  *)
(* and provenance column, a NULL of staging included.                      *)
(***************************************************************************)
C1_MatchedRowsTakeStagingValues ==
    \A p \in Procs :
        (MergeDone(p) /\ last[p].ok /\ last[p].destBefore.exists) =>
            \A t \in RowsOf(last[p].destBefore) :
                \A s \in RowsOf(last[p].stagingBefore) :
                    SameKey(t, s) =>
                        /\ RowsWithKey(last[p].destAfter, t)
                               = RowsWithKey(last[p].destBefore, t)
                        /\ \A u \in RowsOf(last[p].destAfter) :
                               SameKey(u, s) =>
                                   \A c \in ValueColumns : u[c] = s[c]

\* a merge has overwritten a non-null ad_name and a newer load time with
\* the NULL and the load time of the staging row
C1_Witness ==
    \E p \in Procs :
        /\ MergeDone(p) /\ last[p].ok /\ last[p].destBefore.exists
        /\ \E t \in RowsOf(last[p].destBefore) :
               \E s \in RowsOf(last[p].stagingBefore) :
                   /\ SameKey(t, s)
                   /\ t.ad_name # NULL /\ s.ad_name = NULL
                   /\ t.clicks # NULL /\ s.clicks = NULL
                   /\ s \in RowsOf(dest)

(***************************************************************************)
(* C2: a merge, whether it returns true or false, leaves every destination *)
(* row whose (ad_id, date) matches no staging row in place, field for      *)
(* field.                                                                  *)
(***************************************************************************)
C2_UnmatchedRowsUntouched ==
    \A p \in Procs :
        MergeDone(p) =>
            /\ last[p].destBefore.exists => last[p].destAfter.exists
            /\ ~last[p].ok => last[p].destAfter = last[p].destBefore
            /\ \A t \in RowsOf(last[p].destBefore) :
                   (\A s \in RowsOf(last[p].stagingBefore) : ~SameKey(t, s))
                       => CopiesIn(t, last[p].destAfter.rows)
                              >= CopiesIn(t, last[p].destBefore.rows)

\* a successful upsert that rewrote one destination row and had another
\* destination row without a staging row
C2_Witness ==
    \E p \in Procs :
        /\ MergeDone(p) /\ last[p].ok /\ last[p].path = "upsert"
        /\ last[p].destAfter # last[p].destBefore
        /\ \E t \in RowsOf(last[p].destBefore) :
               /\ \A s \in RowsOf(last[p].stagingBefore) : ~SameKey(t, s)
               /\ t \in RowsOf(dest)
        /\ \E t \in RowsOf(last[p].destBefore) :
               \E s \in RowsOf(last[p].stagingBefore) : SameKey(t, s)

(***************************************************************************)
(* C3: the destination table holds at most one row per (ad_id, date).      *)
(***************************************************************************)
C3_OneRowPerKey ==
    \A r \in RowsOf(dest) :
        /\ CopiesIn(r, dest.rows) = 1
        /\ \A u \in RowsOf(dest) :
               (u.ad_id = r.ad_id /\ u.date = r.date) => u = r

(***************************************************************************)
(* C4: two merges in a row on an unchanged staging table, the first of     *)
(* them not hit by a warehouse error: the second leaves the destination as *)
(* the first left it.                                                      *)
(***************************************************************************)
C4_MergeIdempotent ==
    \A p \in Procs :
        (MergeDone(p) /\ last[p].prevOp = "merge" /\ last[p].prevClean) =>
            last[p].destAfter = last[p].destBefore

(***************************************************************************)
(* C5: a merge that finds no destination table, and meets no warehouse     *)
(* error, creates it with exactly the rows and columns of the staging      *)
(* table and returns true.                                                 *)
(***************************************************************************)
C5_CreateIsSnapshotOfStaging ==
    \A p \in Procs :
        (/\ MergeDone(p)
         /\ ~last[p].destBefore.exists
         /\ last[p].stagingBefore.exists
         /\ ~last[p].probeError /\ ~last[p].jobError) =>
            /\ last[p].ok
            /\ last[p].path = "create"
            /\ last[p].destAfter.exists
            /\ last[p].destAfter.rows = last[p].stagingBefore.rows

\* the destination was created from a staging table of two rows
C5_Witness ==
    \E p \in Procs :
        /\ MergeDone(p) /\ last[p].ok /\ last[p].path = "create"
        /\ ~last[p].destBefore.exists
        /\ BagCardinality(last[p].stagingBefore.rows) = 2
        /\ dest = last[p].stagingBefore

(***************************************************************************)
(* C6: once the destination table exists it stays, and every step that     *)
(* changes it is the MERGE statement of a process that found it present.   *)
(***************************************************************************)
C6_OnlyUpsertChangesDest ==
    [][dest.exists =>
          /\ dest'.exists
          /\ dest' # dest =>
                \E p \in Procs :
                    /\ run[p].pc = "merge_statement"
                    /\ run[p].target_exists
                    /\ last'[p].path = "upsert"
                    /\ last'[p].ok]_vars

\* an upsert has changed an existing destination, and a later create
\* attempt (after a failed lookup) has left it as it was
C6_Witness ==
    \E p \in Procs :
        /\ MergeDone(p) /\ last[p].path = "create" /\ last[p].probeError
        /\ last[p].destBefore.exists
        /\ BagCardinality(last[p].destBefore.rows) > 1
        /\ dest = last[p].destBefore

OpRank(op) ==
    CASE op = "test_connection" -> 0
      [] op = "list_advertisers" -> 1
      [] op \in {"insights", "delay"} -> 2
      [] op = "flatten" -> 3
      [] op = "stage" -> 4
      [] op = "merge" -> 5

Did(p, op) == \E i \in DOMAIN run[p].trace : run[p].trace[i].op = op

C8_RunOrder ==
    \A p \in Procs :
        run[p].driver = "main" =>
            LET t == run[p].trace IN
            /\ \A i, j \in DOMAIN t :
                   i < j => /\ OpRank(t[i].op) <= OpRank(t[j].op)
                            /\ OpRank(t[i].op) = OpRank(t[j].op)
                                   => t[i].op \in {"insights", "delay"}
            /\ Did(p, "insights") => Did(p, "list_advertisers")
            /\ Did(p, "flatten") => Did(p, "insights")
            /\ Did(p, "stage") => Did(p, "flatten")
            /\ Did(p, "merge") =>
                   /\ Did(p, "stage")
                   /\ run[p].count > 0
                   /\ staging.exists
                   /\ BagCardinality(staging.rows) = run[p].count
            /\ run[p].pc \in {"done_merged", "done_staged_only"}
                   => Did(p, "merge")
            /\ run[p].pc = "done_zero" =>
                   /\ run[p].count = 0
                   /\ ~Did(p, "stage")
                   /\ ~Did(p, "merge")
                   /\ dest = run[p].destAtStart

\* a run went through all five steps and merged the two rows it staged
C8_Witness ==
    \E p \in Procs :
        /\ run[p].driver = "main"
        /\ run[p].pc = "done_merged"
        /\ run[p].count = 2
        /\ Len(run[p].trace) = 6
        /\ run[p].trace[6].op = "merge"

(***************************************************************************)
(* C9: a fetched edge that lacks one of the fields the flattener requires  *)
(* (ad id, ad name, date, campaign id and name, campaign group id and      *)
(* name) makes the sync raise while flattening, before any write: staging  *)
(* and destination are as they were when the run began.                    *)
(***************************************************************************)
Lacks(obj, key) == obj # NullObj /\ key \notin DOMAIN obj

LacksRequiredField(edge) ==
    LET attrs == edge.node.attributes IN
    \/ Lacks(attrs, "date")
    \/ Lacks(attrs.ad, "id")
    \/ Lacks(attrs.ad, "name")
    \/ Lacks(attrs.ad.campaign, "id")
    \/ Lacks(attrs.ad.campaign, "name")
    \/ /\ attrs.ad.campaign # NullObj
       /\ \/ Lacks(attrs.ad.campaign.campaignGroup, "id")
          \/ Lacks(attrs.ad.campaign.campaignGroup, "name")

FetchedEdges(p) ==
    UNION {{res.data.campaignGroupInsight.records.edges.list[i] :
                i \in DOMAIN res.data.campaignGroupInsight.records.edges.list}
           : res \in {run[p].all_results[k] : k \in DOMAIN run[p].all_results}}

C9_MissingFieldRaisesBeforeWrite ==
    \A p \in Procs :
        (/\ Did(p, "flatten")
         /\ \E e \in FetchedEdges(p) : LacksRequiredField(e)) =>
            /\ run[p].pc = "failed"
            /\ run[p].raised_at = "flatten"
            /\ run[p].records = <<>>
            /\ ~Did(p, "stage")
            /\ staging = run[p].stagingAtStart
            /\ dest = run[p].destAtStart

\* the sync raised over an edge without ad name that came together with a
\* readable edge, while both tables held rows of an earlier run
C9_Witness ==
    \E p \in Procs :
        /\ run[p].pc = "failed" /\ run[p].raised_at = "flatten"
        /\ \E e \in FetchedEdges(p) : LacksRequiredField(e)
        /\ \E e \in FetchedEdges(p) : ~LacksRequiredField(e)
        /\ staging.exists /\ staging = run[p].stagingAtStart
        /\ dest.exists /\ dest = run[p].destAtStart

(***************************************************************************)
(* C10: an edge whose ad, campaign or campaign group is null, or has a     *)
(* null attribute, is still flattened into a record, with null in the      *)
(* fields that come from there; the sync neither raises nor skips it.      *)
(***************************************************************************)
HasNullLevel(edge) ==
    LET ad == edge.node.attributes.ad IN
    /\ ~LacksRequiredField(edge)
    /\ \/ ad.campaign = NullObj
       \/ ad.campaign.campaignGroup = NullObj

C10_NullLevelStillEmitted ==
    \A p \in Procs :
        (/\ Did(p, "flatten")
         /\ \E e \in FetchedEdges(p) : HasNullLevel(e)
         /\ \A e \in FetchedEdges(p) : ~LacksRequiredField(e)) =>
            /\ run[p].raised_at # "flatten"
            /\ \A e \in FetchedEdges(p) :
                   HasNullLevel(e) =>
                       \E i \in DOMAIN run[p].records :
                           /\ run[p].records[i].ad_id
                                  = e.node.attributes.ad.id
                           /\ run[p].records[i].campaign_id = NULL

(***************************************************************************)
(* C11: a run of main() that ends with zero records leaves a staging table *)
(* without rows: nothing an earlier run staged is still in it.             *)
(***************************************************************************)
C11_EmptyRunEmptiesStaging ==
    \A p \in Procs :
        run[p].pc = "done_zero" => staging.rows = EmptyBag

(***************************************************************************)
(* C12: after a successful stage step, and until the next one, the staging *)
(* table holds one row per record flattened in that run, loaded in that    *)
(* run, and nothing else.                                                  *)
(***************************************************************************)
\* row u is what the load makes of record rec
RowOfRecord(u, rec) ==
    /\ u.date = ToDatetime(rec.date)
    /\ \A c \in DOMAIN rec \ {"date"} : u[c] = rec[c]

Staged(p) == Did(p, "stage") /\ run[p].raised_at # "stage"

C12_StagingIsThisRunsRecords ==
    \A p \in Procs :
        Staged(p) =>
            LET recs == run[p].records IN
            /\ staging.exists
            /\ BagCardinality(staging.rows) = Len(recs)
            /\ \A u \in RowsOf(staging) :
                   /\ u["_loaded_at"] = clock - 1
                   /\ CopiesIn(u, staging.rows)
                          = Cardinality({i \in DOMAIN recs :
                                             RowOfRecord(u, recs[i])})

\* a run has staged its one record over the two rows of an earlier run
C12_Witness ==
    \E p \in Procs :
        /\ Staged(p)
        /\ Len(run[p].records) = 1
        /\ BagCardinality(run[p].stagingAtStart.rows) = 2
        /\ BagCardinality(staging.rows) = 1

(***************************************************************************)
(* C13: sequential extraction over the listed ids id_1 .. id_N issues the  *)
(* requests id_1, .., id_N in that order, one id each, with one delay      *)
(* between each two consecutive requests and none after the last, whatever *)
(* the requests return: N requests, and N-1 delays when N >= 1.            *)
(***************************************************************************)
\* the requests and delays of the step log, in order
Calls(p) ==
    LET IsCall(e) == e.op \in {"insights", "delay"}
        calls == SelectSeq(run[p].trace, IsCall)
    IN  [k \in 1..Len(calls) |-> <<calls[k].op, calls[k].ids>>]

ExpectedCalls(ids) ==
    [k \in 1..(IF ids = <<>> THEN 0 ELSE 2 * Len(ids) - 1) |->
        IF k % 2 = 1 THEN <<"insights", <<ids[(k + 1) \div 2]>>>>
        ELSE <<"delay", <<>>>>]

Sequential(p) == run[p].driver = "api" /\ ~run[p].use_bulk

\* the listing is over and did not raise
Listed(p) == Did(p, "list_advertisers") /\ run[p].raised_at # "list_advertisers"

C13_SequentialRequestsAndDelays ==
    \A p \in Procs :
        (Sequential(p) /\ Listed(p)) =>
            LET calls == Calls(p)
                expected == ExpectedCalls(run[p].ids)
            IN  /\ Len(calls) <= Len(expected)
                /\ \A k \in DOMAIN calls : calls[k] = expected[k]
                /\ run[p].pc = "fetch_single"
                       => Len(calls) = 2 * (run[p].idx - 1)
                /\ run[p].pc # "fetch_single" => calls = expected

\* two advertisers were asked, the first request failed, one delay between
C13_Witness ==
    \E p \in Procs :
        /\ Sequential(p) /\ Listed(p)
        /\ run[p].pc # "fetch_single"
        /\ Len(run[p].ids) = 2
        /\ Len(Calls(p)) = 3
        /\ \E k \in DOMAIN run[p].trace :
               /\ run[p].trace[k].op = "insights"
               /\ run[p].trace[k].ids = <<run[p].ids[1]>>
               /\ run[p].trace[k].resp = RespNone

(***************************************************************************)
(* C14: in sequential mode a request that fails (execute_query gives None  *)
(* for a transport failure or a non-2xx status) raises nothing and stops   *)
(* nothing: every listed advertiser is requested, and the result list is,  *)
(* in request order, the responses that carry at least one record.         *)
(***************************************************************************)
\* the response came back and its record list has an edge
HasRecords(resp) ==
    /\ resp # NullObj
    /\ "data" \in DOMAIN resp
    /\ resp.data # NullObj
    /\ "campaignGroupInsight" \in DOMAIN resp.data
    /\ "records" \in DOMAIN resp.data.campaignGroupInsight
    /\ "edges" \in DOMAIN resp.data.campaignGroupInsight.records
    /\ resp.data.campaignGroupInsight.records.edges # NullObj
    /\ resp.data.campaignGroupInsight.records.edges.list # <<>>

\* the insight requests of the step log, in order
Requests(p) ==
    LET IsRequest(e) == e.op = "insights"
    IN  SelectSeq(run[p].trace, IsRequest)

FetchOver(p) == Listed(p) /\ run[p].pc \notin {"fetch_bulk", "fetch_single"}

C14_FailedRequestIsSkipped ==
    \A p \in Procs :
        (Sequential(p) /\ FetchOver(p)) =>
            LET reqs == Requests(p)
                Kept(e) == HasRecords(e.resp)
                kept == SelectSeq(reqs, Kept)
            IN  /\ Len(reqs) = Len(run[p].ids)
                /\ \A i \in DOMAIN reqs : reqs[i].ids = <<run[p].ids[i]>>
                /\ Len(run[p].all_results) = Len(kept)
                /\ \A i \in DOMAIN kept : run[p].all_results[i] = kept[i].resp
                /\ run[p].raised_at \in {"none", "flatten", "stage"}

\* the first of two requests failed, the second brought records: the
\* result list is the second response alone
C14_Witness ==
    \E p \in Procs :
        /\ Sequential(p) /\ FetchOver(p)
        /\ Len(Requests(p)) = 2
        /\ Requests(p)[1].resp = RespNone
        /\ HasRecords(Requests(p)[2].resp)
        /\ run[p].all_results = <<Requests(p)[2].resp>>
        /\ run[p].raised_at = "none"

(***************************************************************************)
(* C15: when the one insights request of a bulk sync fails in transport    *)
(* (execute_query gives None), the sync ends there: nothing is flattened,  *)
(* no table is written, and it returns the count 0 on which main() does    *)
(* not merge.  When a request of a sequential sync fails the same way, the *)
(* other advertisers are still requested and their records go on to the    *)
(* flattener.                                                              *)
(***************************************************************************)
TransportFailure(p) ==
    \E k \in DOMAIN Requests(p) : Requests(p)[k].resp = RespNone

C15_BulkFailureAbortsSequentialSkips ==
    \A p \in Procs :
        (run[p].driver = "api" /\ FetchOver(p) /\ TransportFailure(p)) =>
            IF run[p].use_bulk
            THEN /\ Len(Requests(p)) = 1
                 /\ run[p].all_results = <<>>
                 /\ run[p].records = <<>>
                 /\ ~Did(p, "flatten") /\ ~Did(p, "stage") /\ ~Did(p, "merge")
                 /\ run[p].pc = "sync_returned"
                 /\ run[p].count = 0
                 /\ MainAfterSync(run[p].count) = "done_zero"
                 /\ staging = run[p].stagingAtStart
                 /\ dest = run[p].destAtStart
            ELSE /\ Len(Requests(p)) = Len(run[p].ids)
                 /\ \A k \in DOMAIN Requests(p) :
                        HasRecords(Requests(p)[k].resp) =>
                            /\ \E i \in DOMAIN run[p].all_results :
                                   run[p].all_results[i] = Requests(p)[k].resp
                            /\ run[p].pc = "flatten" \/ Did(p, "flatten")

\* a bulk request for two advertisers failed and the sync returned 0
C15_Witness ==
    \E p \in Procs :
        /\ run[p].driver = "api" /\ run[p].use_bulk
        /\ FetchOver(p) /\ TransportFailure(p)
        /\ Len(run[p].ids) = 2
        /\ run[p].pc = "sync_returned"
        /\ run[p].count = 0

(***************************************************************************)
(* C16: _check_data_retrieved answers false, and raises nothing, for a     *)
(* response that is null, lacks a key of the path data /                   *)
(* campaignGroupInsight / records / edges, has a null on that path or has  *)
(* an empty edge list; a run of main() whose one response is of that kind  *)
(* ends with zero synced records and without an exception.                 *)
(***************************************************************************)
C16_CheckRejectsWithoutRaising ==
    \A p \in Procs :
        (/\ run[p].driver = "main"
         /\ FetchOver(p)
         /\ Requests(p) # <<>>
         /\ ~HasRecords(Requests(p)[1].resp)) =>
            /\ ~CheckDataRetrieved(Requests(p)[1].resp)
            /\ run[p].all_results = <<>>
            /\ run[p].raised_at = "none"
            /\ run[p].pc = "done_zero"
            /\ run[p].count = 0
            /\ ~Did(p, "flatten")

\* a run ended with zero records on a response whose "edges" is null
C16_Witness ==
    \E p \in Procs :
        /\ run[p].driver = "main"
        /\ run[p].pc = "done_zero"
        /\ Requests(p) # <<>>
        /\ Requests(p)[1].resp = RespEdgesNull

(***************************************************************************)
(* C17: when the listing answers with zero advertisers or with a malformed *)
(* envelope (no "data", "data" null, "advertisers" null or without         *)
(* "edges", an edge without "node" or "id"), get_all_advertiser_ids        *)
(* returns the empty sequence and raises nothing.                          *)
(***************************************************************************)
ListingOf(p) ==
    LET IsListing(e) == e.op = "list_advertisers"
    IN  SelectSeq(run[p].trace, IsListing)

C17_ListingNeverRaises ==
    \A p \in Procs :
        (/\ ListingOf(p) # <<>>
         /\ ListingOf(p)[1].resp
                \in MalformedListings \cup {RespErrors, ListEnvelope(0)}) =>
            /\ run[p].raised_at # "list_advertisers"
            /\ run[p].ids = <<>>
            /\ Requests(p) = <<>>

(***************************************************************************)
(* C18: a run of main() that lacks the warehouse credentials, a project id *)
(* or the StackAdapt API key raises while the pipeline is constructed: it  *)
(* sends no request at all and writes no table.                            *)
(***************************************************************************)
C18_ConfigErrorBeforeAnyRequest ==
    \A p \in Procs :
        (\/ ~run[p].config.credentials
         \/ ~run[p].config.project_id
         \/ ~run[p].config.api_key) =>
            /\ run[p].pc = "failed"
            /\ run[p].raised_at = "init"
            /\ run[p].trace = <<>>
            /\ staging = run[p].stagingAtStart
            /\ dest = run[p].destAtStart

\* a run without API key failed at construction, after an earlier run had
\* filled both tables
C18_Witness ==
    \E p \in Procs :
        /\ ~run[p].config.api_key
        /\ run[p].config.credentials /\ run[p].config.project_id
        /\ run[p].raised_at = "init"
        /\ staging.exists /\ dest.exists

(***************************************************************************)
(* C19: a sequential sync over two advertisers, the first answering with   *)
(* the records of two days and the second with a valid response of no      *)
(* records, flattens and stages exactly the first one's two records; the   *)
(* merge that follows, finding no destination and meeting no warehouse     *)
(* error, creates the destination with exactly those two rows.             *)
(***************************************************************************)
TwoDays == InsightEnvelope(<<EdgeA, EdgeC>>)

\* the step log is the one of the scenario
TwoAdvertisersScenario(use_bulk, trace) ==
    LET IsRequest(e) == e.op = "insights"
        reqs == SelectSeq(trace, IsRequest)
    IN  /\ ~use_bulk
        /\ Len(reqs) = 2
        /\ reqs[1].resp = TwoDays
        /\ reqs[2].resp = RespEmpty

\* the table holds one row for each of the two days of the first advertiser
HoldsTheTwoDays(table) ==
    /\ table.exists
    /\ BagCardinality(table.rows) = 2
    /\ \E u, v \in RowsOf(table) :
           /\ u # v
           /\ RowOfRecord(u, FlattenEdge(EdgeA))
           /\ RowOfRecord(v, FlattenEdge(EdgeC))

C19_TwoAdvertisersEndToEnd ==
    \A p \in Procs :
        /\ (/\ run[p].pc = "sync_returned"
            /\ TwoAdvertisersScenario(run[p].use_bulk, run[p].trace)) =>
               /\ run[p].records = <<FlattenEdge(EdgeA), FlattenEdge(EdgeC)>>
               /\ run[p].count = 2
               /\ HoldsTheTwoDays(staging)
        /\ (/\ MergeDone(p)
            /\ last[p].prevOp = "sync"
            /\ TwoAdvertisersScenario(last[p].sync.use_bulk, last[p].sync.trace)
            /\ ~last[p].destBefore.exists
            /\ ~last[p].probeError /\ ~last[p].jobError) =>
               /\ last[p].sync.count = 2
               /\ HoldsTheTwoDays(last[p].stagingBefore)
               /\ last[p].ok
               /\ last[p].path = "create"
               /\ HoldsTheTwoDays(last[p].destAfter)
               /\ last[p].destAfter.rows = last[p].stagingBefore.rows

\* the scenario has run to its end: the destination is the two rows
C19_Witness ==
    \E p \in Procs :
        /\ MergeDone(p)
        /\ last[p].prevOp = "sync"
        /\ TwoAdvertisersScenario(last[p].sync.use_bulk, last[p].sync.trace)
        /\ ~last[p].destBefore.exists
        /\ last[p].ok
        /\ HoldsTheTwoDays(dest)

(***************************************************************************)
(* C20: two runs of main() in a row that get the same responses from the   *)
(* API, each going through its merge without a warehouse error: the second *)
(* returns the same record count as the first, and leaves the destination  *)
(* with as many rows as the first left.                                    *)
(***************************************************************************)
C20_RerunKeepsCounts ==
    \A p \in Procs :
        (/\ run[p].driver = "main"
         /\ run[p].pc \in {"done_merged", "done_staged_only"}
         /\ ~last[p].probeError /\ ~last[p].jobError
         /\ run[p].prev.merged
         /\ Upstream(run[p].trace) = run[p].prev.upstream) =>
            /\ run[p].count = run[p].prev.count
            /\ BagCardinality(dest.rows) = run[p].prev.destRows

(***************************************************************************)
(* C21: the flattener makes one record of every edge of every accepted     *)
(* response, in response order then edge order; the count the sync returns *)
(* and the number of rows it stages are the number of those edges.         *)
(***************************************************************************)
\* the edges of the accepted responses, response by response
AllEdges(results) ==
    LET Upto[i \in 0..Len(results)] ==
            IF i = 0 THEN <<>>
            ELSE Upto[i - 1]
                 \o results[i].data.campaignGroupInsight.records.edges.list
    IN  Upto[Len(results)]

RecordOfEdge(rec, edge) ==
    /\ rec.ad_id = edge.node.attributes.ad.id
    /\ rec.ad_name = edge.node.attributes.ad.name
    /\ rec.date = edge.node.attributes.date
    /\ rec.campaign_id = edge.node.attributes.ad.campaign.id

Flattened(p) == Did(p, "flatten") /\ run[p].raised_at # "flatten"

C21_OneRecordPerEdge ==
    \A p \in Procs :
        Flattened(p) =>
            LET edges == AllEdges(run[p].all_results)
                recs == run[p].records
            IN  /\ Len(recs) = Len(edges)
                /\ \A k \in DOMAIN recs : RecordOfEdge(recs[k], edges[k])
                /\ Staged(p) =>
                       /\ run[p].count = Len(edges)
                       /\ BagCardinality(staging.rows) = Len(edges)

\* two responses, three edges, the same edge in both: three records staged
C21_Witness ==
    \E p \in Procs :
        /\ Flattened(p) /\ Staged(p)
        /\ Len(run[p].all_results) = 2
        /\ Len(run[p].records) = 3
        /\ run[p].records[1] = run[p].records[2]
        /\ run[p].count = 3

(***************************************************************************)
(* C22: a bulk extraction over a non-empty advertiser list issues exactly  *)
(* one insights request, which carries the whole list, and no delay; its   *)
(* result list holds at most one response.                                 *)
(***************************************************************************)
C22_BulkIsOneRequest ==
    \A p \in Procs :
        (/\ run[p].driver = "main"
         /\ run[p].use_bulk
         /\ Listed(p)
         /\ run[p].ids # <<>>) =>
            /\ ~Did(p, "delay")
            /\ Len(Requests(p)) <= 1
            /\ Len(run[p].all_results) <= 1
            /\ FetchOver(p) =>
                   /\ Len(Requests(p)) = 1
                   /\ Requests(p)[1].ids = run[p].ids
                   /\ run[p].all_results \in {<<>>, <<Requests(p)[1].resp>>}

\* one request for two advertisers brought the one response of the list
C22_Witness ==
    \E p \in Procs :
        /\ run[p].driver = "main" /\ run[p].use_bulk
        /\ FetchOver(p)
        /\ Len(run[p].ids) = 2
        /\ Len(Requests(p)) = 1
        /\ Len(Requests(p)[1].ids) = 2
        /\ Len(run[p].all_results) = 1

(***************************************************************************)
(* C23: with two runs of main() at once, the statement of a merge reads    *)
(* the staging table as it is at that moment, whichever run loaded it:     *)
(* when the statement changes the destination, every row the staging table *)
(* then holds is in the destination afterwards, so a run can merge rows    *)
(* the other run staged instead of its own (no lock is held from a run's   *)
(* stage to its merge).                                                    *)
(***************************************************************************)
C23_MergeReadsStagingAsItIs ==
    [][\A p \in Procs :
          (/\ run[p].pc = "merge_statement"
           /\ run'[p].pc # "merge_statement"
           /\ dest' # dest) =>
              /\ staging.exists
              /\ last'[p].ok
              /\ \A u \in RowsOf(staging) : u \in RowsOf(dest')]_vars

\* run p staged its records, run q replaced them before p's merge, and
\* p's merge created the destination from q's rows, none of p's own
C23_Witness ==
    \E p, q \in Procs :
        /\ p # q
        /\ run[p].driver = "main" /\ run[q].driver = "main"
        /\ Staged(p) /\ Staged(q)
        /\ run[p].loaded_at < run[q].loaded_at
        /\ MergeDone(p) /\ last[p].ok
        /\ RowsOf(last[p].stagingBefore) # {}
        /\ \A u \in RowsOf(last[p].stagingBefore) :
               /\ u._loaded_at = run[q].loaded_at
               /\ \E j \in DOMAIN run[q].records :
                      RowOfRecord(u, run[q].records[j])
               /\ \A i \in DOMAIN run[p].records :
                      ~RowOfRecord(u, run[p].records[i])
               /\ u \in RowsOf(last[p].destAfter)
        /\ \A v \in RowsOf(last[p].destAfter) :
               /\ v._loaded_at # run[p].loaded_at
               /\ \A i \in DOMAIN run[p].records :
                      ~RowOfRecord(v, run[p].records[i])

(***************************************************************************)
(* C24: a merge whose existence lookup failed takes the create path; when  *)
(* the destination is in fact there, the CREATE fails, the merge returns   *)
(* False without raising, the destination is left as it was and no staged  *)
(* row is merged into it.                                                  *)
(***************************************************************************)
C24_FailedProbeTakesCreatePath ==
    \A p \in Procs :
        (MergeDone(p) /\ last[p].probeError) =>
            /\ last[p].path = "create"
            /\ last[p].destBefore.exists =>
                   /\ ~last[p].ok
                   /\ ~run[p].merge_success
                   /\ run[p].raised_at # "merge"
                   /\ last[p].destAfter = last[p].destBefore
                   /\ dest = last[p].destBefore

\* the lookup failed, the destination was there, BigQuery raised no other
\* error, and the run ended with a staged row that is not in the destination
C24_Witness ==
    \E p \in Procs :
        /\ MergeDone(p) /\ last[p].probeError /\ ~last[p].jobError
        /\ last[p].destBefore.exists
        /\ run[p].pc = "done_staged_only"
        /\ \E u \in RowsOf(last[p].stagingBefore) : u \notin RowsOf(dest)

(***************************************************************************)
(* C25: the first request of a sync is the connection test, made once and  *)
(* before the advertiser listing; when it fails (the schema query returns  *)
(* nothing) the run raises there: no listing, no insight request, no       *)
(* staging write and no merge happens in the run, and both tables are as   *)
(* they were when the run started.                                         *)
(***************************************************************************)
TestFailed(p) ==
    \E i \in DOMAIN run[p].trace :
        /\ run[p].trace[i].op = "test_connection"
        /\ run[p].trace[i].resp = RespNone

C25_ConnectionTestFirst ==
    \A p \in Procs :
        LET t == run[p].trace IN
        /\ (run[p].driver = "main" /\ t # <<>>) =>
               /\ t[1].op = "test_connection"
               /\ \A i \in DOMAIN t : i > 1 => t[i].op # "test_connection"
        /\ Did(p, "list_advertisers") => ~TestFailed(p)
        /\ TestFailed(p) =>
               /\ run[p].pc = "failed"
               /\ run[p].raised_at = "test_connection"
               /\ Len(t) = 1
               /\ ~Did(p, "list_advertisers") /\ ~Did(p, "insights")
               /\ ~Did(p, "stage") /\ ~Did(p, "merge")
               /\ ~MergeDone(p)
               /\ staging = run[p].stagingAtStart
               /\ dest = run[p].destAtStart

\* a run whose connection test failed, after an earlier run had loaded and
\* merged rows: both tables still hold them
C25_Witness ==
    \E p \in Procs :
        /\ TestFailed(p)
        /\ run[p].pc = "failed"
        /\ staging.exists /\ RowsOf(staging) # {}
        /\ dest.exists /\ RowsOf(dest) # {}
        /\ staging = run[p].stagingAtStart
====
